---- MODULE Spec2Model ----
(***************************************************************************)
(* A model of scripts/nnue/train_nnue.py: the feature encoder, the sample  *)
(* loader, the game-wise splitter, the two-layer network, the training     *)
(* loop of main and the weight serializer.                                 *)
(*                                                                         *)
(* Python lists are functions over 0..n-1 where the code indexes them      *)
(* (weights, features) and sequences where it only appends or iterates.    *)
(* Floats are modelled by the integer-valued floats: every quantity the    *)
(* model computes stays an integer far below 2^53, where Python's float    *)
(* arithmetic is exact.  Losses are kept doubled (0.5*e*e becomes e*e) so  *)
(* that they stay integers as well.                                        *)
(***************************************************************************)
EXTENDS Integers, Sequences, FiniteSets, TLC

VARIABLES
    \* ---- NnueModel.train_sample called on its own ----
    mdl,            \* the parameters [w1, b1, w2, b2] of one NnueModel
    mdlArgs,        \* [seed, lr, delta] of the run
    mdlCalls,       \* number of train_sample calls made
    mdlPrev,        \* history: the parameters before the last call
    mdlSample,      \* history: [features, label] of the last call
    mdlLoss,        \* the (doubled) loss the last call returned
    \* ---- write_snnue ----
    wrArgs,         \* [dir, input_size, hidden_size, w1, b1, w2, b2] of the call
    outFile,        \* the file at the output path: Missing or its contents
    wrResult,       \* "pending" before the call, then "ok" or the exception raised
    \* ---- the training loop of main ----
    args,           \* [epochs, minEpochs, patience, lr, huberDelta, seed]
    train,          \* the training samples, in their shuffled order
    heap,           \* the list objects, by address
    model,          \* the live NnueModel: addresses of w1, b1, w2 and the float b2
    epoch,          \* the loop variable of `for epoch in range(args.epochs)`
    sampleIdx,      \* position in `for sample in train` (1-based)
    total_loss,     \* (doubled) sum of the losses train_sample returned
    history,
    best_val,
    best_epoch,
    best_snapshot,  \* None, or the addresses of the copies and the float b2
    patience_left,
    pcMain,         \* "idle" | "loop" | "break" | "done"
    written,        \* history: the parameters main handed to write_snnue
    epochParams,    \* history: the live parameters at the end of each epoch
    snapTaken,      \* history: the live parameters when best_snapshot was taken
    patienceTrace,  \* history: patience_left at the end of each epoch
    \* ---- fen_to_features called on its own ----
    fen,            \* the position string, a sequence of characters
    fenResult,      \* [status, features]: "pending", "ok" or the exception raised
    \* ---- split_by_game called on its own ----
    spSamples,      \* the samples: [idx, gameId], idx standing for the object
    spOut,          \* [train, val] once split_by_game has returned
    pcSplit,        \* "idle" | "call" | "done"
    \* ---- load_samples ----
    ldEnv,          \* [globalFile, timeout_map, runFiles, annotated, max_samples]: the
                    \* arguments and the files under analysis_root
    samples,
    skipped,
    label_stats,
    cache,          \* engine colours by <<run_id, game_id>>
    timeout_cache,  \* timeout maps by run_id
    pcLoad,         \* "idle" | "read" | "shuffle" | "done" | "error"
    ldError,        \* the exception that ended load_samples, or ""
    ldLines,        \* lines of the dataset read so far
    ldRow,          \* history: the last non-blank row read
    ldOutcome,      \* history: what became of it
    ldBefore,       \* history: [samples, skipped] before it was read
    ldRows          \* history: non-blank rows that entered the loop body

modelVars == <<mdl, mdlArgs, mdlCalls, mdlPrev, mdlSample, mdlLoss>>

writeVars == <<wrArgs, outFile, wrResult>>

mainVars == <<args, train, heap, model, epoch, sampleIdx, total_loss, history,
              best_val, best_epoch, best_snapshot, patience_left, pcMain,
              written, epochParams, snapTaken, patienceTrace>>

fenVars == <<fen, fenResult>>

splitVars == <<spSamples, spOut, pcSplit>>

loadVars == <<ldEnv, samples, skipped, label_stats, cache, timeout_cache, pcLoad,
              ldError, ldLines, ldRow, ldOutcome, ldBefore, ldRows>>

vars == <<modelVars, writeVars, mainVars, fenVars, splitVars, loadVars>>

\* Python's None, and the absence of a file, as records: the values they
\* stand in for are records.
None == [none |-> TRUE]
Missing == [missing |-> TRUE]

----------------------------------------------------------------------------
(* Program constants and the sizes they are scaled down to.                *)

MAGIC == "SNN1"
VERSION == 1
FLAGS == 0
RELU_CAP == 127

\* INPUT_SIZE (768 in the source) and HIDDEN_SIZE (64), scaled down.
InputSize == 3
HiddenSize == 3

\* Seeds of random.Random(seed) that the model distinguishes.
MaxSeed == 3
\* Number of active features of a sample handed to train_sample.
MaxPieces == 2
\* train_sample calls in one behaviour of SpecModel.
MaxCalls == 2

\* Largest input_size, hidden_size and list length handed to write_snnue alone.
MaxShape == 2

\* Largest --epochs and --minEpochs, largest --patience, largest validation loss.
MaxEpochs == 4
MaxPatience == 2
MaxLoss == 2

\* Largest gameId and longest sample list split with every shuffle outcome;
\* largest number of games split with the rotated and reversed outcomes.
MaxGameId == 3
MaxSplitSamples == 3
MaxGames == 11

\* Lines of the dataset read by load_samples; the --maxSamples cap when set.
MaxLines == 2
MaxCap == 1

LrSet == {1}
DeltaSet == {100}
LabelSet == {-300, 0, 50}

Rows == 0 .. (InputSize - 1)
Units == 0 .. (HiddenSize - 1)

----------------------------------------------------------------------------
(* Helpers on lists.                                                       *)

RECURSIVE SumSeq(_)
SumSeq(s) == IF s = <<>> THEN 0 ELSE Head(s) + SumSeq(Tail(s))

RECURSIVE SumFn(_, _)
\* Sum of f[0] .. f[n-1].
SumFn(f, n) == IF n = 0 THEN 0 ELSE f[n - 1] + SumFn(f, n - 1)

Abs(x) == IF x < 0 THEN -x ELSE x

\* Strictly increasing index lists of at most MaxPieces entries.
FeatureLists ==
    { s \in UNION { [1 .. n -> Rows] : n \in 0 .. MaxPieces } :
        \A k \in 1 .. (Len(s) - 1) : s[k] < s[k + 1] }

----------------------------------------------------------------------------
(* feature_index, fen_to_features.  A string is a sequence of characters.  *)

\* PIECE_TYPE_INDEX
PIECE_TYPE_INDEX ==
    [c \in {"p", "n", "b", "r", "q", "k"} |->
        CASE c = "p" -> 0 [] c = "n" -> 1 [] c = "b" -> 2
          [] c = "r" -> 3 [] c = "q" -> 4 [] c = "k" -> 5]

UpperCase == {"P", "N", "B", "R", "Q", "K", "X"}

\* str.isupper, str.lower and str.isdigit / int on the characters that occur.
isupper(c) == c \in UpperCase

lower(c) ==
    CASE c = "P" -> "p" [] c = "N" -> "n" [] c = "B" -> "b" [] c = "R" -> "r"
      [] c = "Q" -> "q" [] c = "K" -> "k" [] c = "X" -> "x" [] OTHER -> c

DigitValue ==
    [c \in {"0", "1", "2", "3", "4", "5", "6", "7", "8", "9"} |->
        CASE c = "0" -> 0 [] c = "1" -> 1 [] c = "2" -> 2 [] c = "3" -> 3
          [] c = "4" -> 4 [] c = "5" -> 5 [] c = "6" -> 6 [] c = "7" -> 7
          [] c = "8" -> 8 [] c = "9" -> 9]

isdigit(c) == c \in DOMAIN DigitValue

\* The square of a black piece in a single frame shared with white.
SquareIndexUnmirrored(color, file_idx, rank_idx) == rank_idx * 8 + file_idx

SquareIndex(color, file_idx, rank_idx) ==
    IF color = "w" THEN rank_idx * 8 + file_idx ELSE (7 - rank_idx) * 8 + file_idx

\* feature_index; the caller has checked that PIECE_TYPE_INDEX has the key.
feature_index(piece_char, file_idx, rank_idx) ==
    LET color == IF isupper(piece_char) THEN "w" ELSE "b"
        type_index == PIECE_TYPE_INDEX[lower(piece_char)]
        color_offset == IF color = "w" THEN 0 ELSE 6
    IN  (color_offset + type_index) * 64 + SquareIndex(color, file_idx, rank_idx)

RECURSIVE SplitOn(_, _, _)
\* str.split(sep) for a one-character sep: the segments between the
\* separators, empty ones included; cur is the segment being read.
SplitOn(text, sep, cur) ==
    IF text = <<>> THEN <<cur>>
    ELSE IF Head(text) = sep THEN <<cur>> \o SplitOn(Tail(text), sep, <<>>)
    ELSE SplitOn(Tail(text), sep, Append(cur, Head(text)))

RECURSIVE SplitWhitespace(_, _)
\* str.split(): the maximal runs of non-blank characters.
SplitWhitespace(text, cur) ==
    IF text = <<>> THEN (IF cur = <<>> THEN <<>> ELSE <<cur>>)
    ELSE IF Head(text) = " "
    THEN (IF cur = <<>> THEN <<>> ELSE <<cur>>) \o SplitWhitespace(Tail(text), <<>>)
    ELSE SplitWhitespace(Tail(text), Append(cur, Head(text)))

RECURSIVE RankFeatures(_, _, _)
\* The inner loop of fen_to_features over one rank_text, from file_idx on:
\* [status, features].
RankFeatures(rank_text, rank_idx, file_idx) ==
    IF rank_text = <<>> THEN [status |-> "ok", features |-> <<>>]
    ELSE LET char == Head(rank_text)
         IN  IF isdigit(char)
             THEN RankFeatures(Tail(rank_text), rank_idx, file_idx + DigitValue[char])
             ELSE IF lower(char) \notin DOMAIN PIECE_TYPE_INDEX
             THEN [status |-> "KeyError", features |-> <<>>]
             ELSE LET rest == RankFeatures(Tail(rank_text), rank_idx, file_idx + 1)
                  IN  [ status |-> rest.status,
                        features |-> <<feature_index(char, file_idx, rank_idx)>>
                                        \o rest.features ]

RECURSIVE BoardFeatures(_, _)
\* The outer loop of fen_to_features from rank number fen_rank on.
BoardFeatures(ranks, fen_rank) ==
    IF ranks = <<>> THEN [status |-> "ok", features |-> <<>>]
    ELSE LET here == RankFeatures(Head(ranks), 7 - fen_rank, 0)
         IN  IF here.status # "ok" THEN here
             ELSE LET rest == BoardFeatures(Tail(ranks), fen_rank + 1)
                  IN  [ status |-> rest.status,
                        features |-> here.features \o rest.features ]

\* fen_to_features: [status, features], status being "ok" or the exception.
fen_to_features(text) ==
    LET fields == SplitWhitespace(text, <<>>)
    IN  IF fields = <<>> THEN [status |-> "IndexError", features |-> <<>>]
        ELSE LET ranks == SplitOn(fields[1], "/", <<>>)
             IN  IF Len(ranks) # 8 THEN [status |-> "ValueError", features |-> <<>>]
                 ELSE LET r == BoardFeatures(ranks, 0)
                      IN  IF r.status = "ok" THEN r
                          ELSE [status |-> r.status, features |-> <<>>]

----------------------------------------------------------------------------
(* split_by_game                                                           *)

RECURSIVE SortedSeq(_)
\* sorted(set) of integers.
SortedSeq(S) ==
    IF S = {} THEN <<>>
    ELSE LET least == CHOOSE x \in S : \A y \in S : x <= y
         IN  <<least>> \o SortedSeq(S \ {least})

\* The orders rng.shuffle(games) may leave the list in: every permutation of
\* a list of at most MaxGameId games; of a longer list, its rotations and
\* their reversals.
Shuffles(games) ==
    LET n == Len(games)
    IN  IF n <= MaxGameId
        THEN { [k \in 1 .. n |-> games[p[k]]] : p \in Permutations(1 .. n) }
        ELSE { [k \in 1 .. n |-> games[((k - 1 + r) % n) + 1]] : r \in 0 .. (n - 1) }
             \cup { [k \in 1 .. n |-> games[((n - k + r) % n) + 1]] : r \in 0 .. (n - 1) }

\* int(len(games) * 0.9) with the rounding of round().
CutoffRounded(n) == (9 * n + 5) \div 10

\* int(len(games) * 0.9): the double n * 0.9 truncated.  The double 0.9 lies
\* above 9/10 by less than 3e-17, so the product rounds to 9n/10 when that
\* is an integer and keeps its integer part otherwise.
Cutoff(n) == (9 * n) \div 10

\* [s for s in samples if keep(s)]
RECURSIVE Filter(_, _, _)
Filter(list, games, inside) ==
    IF list = <<>> THEN <<>>
    ELSE IF (Head(list).gameId \in games) = inside
    THEN <<Head(list)>> \o Filter(Tail(list), games, inside)
    ELSE Filter(Tail(list), games, inside)

\* split_by_game, shuffled being the list of games after rng.shuffle.
split_by_game(list, shuffled) ==
    LET cutoff == Cutoff(Len(shuffled))
        train_games == {shuffled[k] : k \in 1 .. cutoff}
    IN  [ train |-> Filter(list, train_games, TRUE),
          val |-> Filter(list, train_games, FALSE) ]

----------------------------------------------------------------------------
(* huber_loss, huber_grad                                                  *)

\* Twice huber_loss(error, delta).
huber_loss2(error, delta) ==
    IF Abs(error) <= delta
    THEN error * error
    ELSE delta * (2 * Abs(error) - delta)

huber_grad(error, delta) ==
    IF Abs(error) <= delta THEN error
    ELSE IF error > 0 THEN delta ELSE -delta

----------------------------------------------------------------------------
(* NnueModel                                                               *)

\* The k-th draw (rng.random() * 2 - 1) * 0.01 of random.Random(seed), as one
\* of three values.
Draw(seed, k) == ((seed + k + (k \div 3)) % 3) - 1

\* NnueModel.__init__: w1 is drawn row by row, then w2; b1 and b2 are zero.
NewModel(seed) ==
    [ w1 |-> [idx \in Rows |-> [i \in Units |-> Draw(seed, idx * HiddenSize + i)]],
      b1 |-> [i \in Units |-> 0],
      w2 |-> [i \in Units |-> Draw(seed, InputSize * HiddenSize + i)],
      b2 |-> 0 ]

\* NnueModel.forward: [output, hidden, active].
forward(m, features) ==
    LET pre == [i \in Units |->
                  m.b1[i] + SumSeq([k \in 1 .. Len(features) |-> m.w1[features[k]][i]])]
        hidden == [i \in Units |->
                     IF pre[i] <= 0 THEN 0
                     ELSE IF pre[i] >= RELU_CAP THEN RELU_CAP
                     ELSE pre[i]]
        active == [i \in Units |-> pre[i] > 0 /\ pre[i] < RELU_CAP]
        contrib == [i \in Units |-> IF hidden[i] # 0 THEN hidden[i] * m.w2[i] ELSE 0]
    IN  [ output |-> m.b2 + SumFn(contrib, HiddenSize),
          hidden |-> hidden,
          active |-> active ]

\* Number of times idx occurs in features.
Occurrences(features, idx) ==
    Cardinality({k \in 1 .. Len(features) : features[k] = idx})

\* The hidden units whose layer-1 parameters train_sample updates.
UpdatedUnitsNoActive(fwd, g) == {i \in Units : g[i] # 0}

UpdatedUnits(fwd, g) == {i \in Units : fwd.active[i] /\ g[i] # 0}

\* The w1 rows train_sample writes to (each once per occurrence in features).
TouchedRowsAll(features, idx) == 1

TouchedRows(features, idx) == Occurrences(features, idx)

\* NnueModel.train_sample: [model, loss], the parameters after the in-place
\* update and the (doubled) loss returned.
train_sample(m, features, label, lr, delta) ==
    LET fwd == forward(m, features)
        error == fwd.output - label
        grad == huber_grad(error, delta)
        w2_snapshot == m.w2
        g == [i \in Units |-> grad * w2_snapshot[i]]
        upd == UpdatedUnits(fwd, g)
    IN  [ model |->
            [ w1 |-> [idx \in Rows |-> [i \in Units |->
                        IF i \in upd
                        THEN m.w1[idx][i] - TouchedRows(features, idx) * lr * g[i]
                        ELSE m.w1[idx][i]]],
              b1 |-> [i \in Units |-> IF i \in upd THEN m.b1[i] - lr * g[i] ELSE m.b1[i]],
              w2 |-> [i \in Units |->
                        IF fwd.hidden[i] # 0
                        THEN m.w2[i] - lr * grad * fwd.hidden[i]
                        ELSE m.w2[i]],
              b2 |-> m.b2 - lr * grad ],
          loss |-> huber_loss2(error, delta) ]

----------------------------------------------------------------------------
(* write_snnue                                                             *)

RECURSIVE Pow2(_)
Pow2(n) == IF n = 0 THEN 1 ELSE 2 * Pow2(n - 1)

RECURSIVE Ulp32(_, _)
\* The spacing of the 32-bit floats around the magnitude a (an integer).
Ulp32(a, u) == IF a < Pow2(24) * u THEN u ELSE Ulp32(a, 2 * u)

\* struct.pack("<f", float(value)): the nearest 32-bit float, ties to even.
pack_f(value) ==
    LET a == Abs(value)
        u == Ulp32(a, 1)
        q == a \div u
        r == a % u
        up == 2 * r > u \/ (2 * r = u /\ q % 2 = 1)
        m == (IF up THEN q + 1 ELSE q) * u
    IN  IF value < 0 THEN -m ELSE m

RECURSIVE Flatten(_)
Flatten(rows) == IF rows = <<>> THEN <<>> ELSE Head(rows) \o Flatten(Tail(rows))

PackAll(values) == [k \in 1 .. Len(values) |-> pack_f(values[k])]

\* The file a completed sequence of handle.write calls leaves at the path.
WrittenFile(input_size, hidden_size, w1, b1, w2, b2) ==
    LET floats == PackAll(Flatten(w1) \o b1 \o w2 \o <<b2>>)
    IN  [ magic |-> MAGIC,
          header |-> <<input_size, hidden_size, VERSION, FLAGS>>,
          floats |-> floats,
          size |-> 4 + 8 + 4 * Len(floats) ]

\* What the size check of write_snnue leaves at the path when it fails.
AfterMismatchRemoved(file) == Missing

AfterMismatch(file) == file

\* write_snnue(path, ...): [file, result], the file at the path afterwards
\* and "ok" or the exception raised.  dir is os.path.dirname(path).
write_snnue(old, dir, input_size, hidden_size, w1, b1, w2, b2) ==
    LET float_count == input_size * hidden_size + hidden_size + hidden_size + 1
        byte_length == 12 + float_count * 4
        file == WrittenFile(input_size, hidden_size, w1, b1, w2, b2)
    IN  IF dir = ""
        THEN [file |-> old, result |-> "FileNotFoundError"]
        ELSE IF file.size # byte_length
        THEN [file |-> AfterMismatch(file), result |-> "ValueError"]
        ELSE [file |-> file, result |-> "ok"]

----------------------------------------------------------------------------
(* Each specification runs one component; the others stay idle.            *)

IdleModel ==
    /\ mdl = None /\ mdlArgs = None /\ mdlCalls = 0
    /\ mdlPrev = None /\ mdlSample = None /\ mdlLoss = 0

IdleWrite == wrArgs = None /\ outFile = Missing /\ wrResult = "pending"

IdleMain ==
    /\ args = None /\ train = <<>> /\ heap = <<>> /\ model = None
    /\ epoch = 0 /\ sampleIdx = 0 /\ total_loss = 0 /\ history = <<>>
    /\ best_val = 0 /\ best_epoch = 0 /\ best_snapshot = None
    /\ patience_left = 0 /\ pcMain = "idle" /\ written = None
    /\ epochParams = <<>> /\ snapTaken = None /\ patienceTrace = <<>>

IdleFen == fen = <<>> /\ fenResult = [status |-> "idle", features |-> <<>>]

IdleSplit ==
    spSamples = <<>> /\ spOut = [train |-> <<>>, val |-> <<>>] /\ pcSplit = "idle"

IdleLoad ==
    /\ ldEnv = None /\ samples = <<>> /\ skipped = None /\ label_stats = None
    /\ cache = <<>> /\ timeout_cache = <<>> /\ pcLoad = "idle" /\ ldError = ""
    /\ ldLines = 0 /\ ldRow = None /\ ldOutcome = "" /\ ldBefore = None
    /\ ldRows = 0

----------------------------------------------------------------------------
(* SpecWrite: one call of write_snnue on lists of arbitrary shape.         *)

Ones(n) == [k \in 1 .. n |-> 1]

ShapeLists == { Ones(n) : n \in 0 .. MaxShape }

StaleFile == [magic |-> "OLD", header |-> <<>>, floats |-> <<>>, size |-> 3]

InitWrite ==
    /\ \E dir \in {"", "weights"},
          input_size \in 1 .. MaxShape, hidden_size \in 1 .. MaxShape,
          w1 \in UNION { [1 .. n -> ShapeLists] : n \in 0 .. MaxShape },
          b1 \in ShapeLists, w2 \in ShapeLists :
          wrArgs = [ dir |-> dir, input_size |-> input_size,
                     hidden_size |-> hidden_size,
                     w1 |-> w1, b1 |-> b1, w2 |-> w2, b2 |-> 1 ]
    /\ outFile \in {Missing, StaleFile}
    /\ wrResult = "pending"
    /\ IdleModel /\ IdleMain /\ IdleFen /\ IdleSplit /\ IdleLoad

WriteCall ==
    /\ wrArgs # None
    /\ wrResult = "pending"
    /\ LET r == write_snnue(outFile, wrArgs.dir, wrArgs.input_size,
                            wrArgs.hidden_size, wrArgs.w1, wrArgs.b1,
                            wrArgs.w2, wrArgs.b2)
       IN  /\ outFile' = r.file
           /\ wrResult' = r.result
    /\ UNCHANGED <<wrArgs, modelVars, mainVars, fenVars, splitVars, loadVars>>

NextWrite == WriteCall

SpecWrite == InitWrite /\ [][NextWrite]_vars

----------------------------------------------------------------------------
(* SpecModel: a freshly constructed NnueModel and a bounded number of      *)
(* train_sample calls on arbitrary samples.                                *)

InitModel ==
    /\ \E seed \in 1 .. MaxSeed, lr \in LrSet, delta \in DeltaSet :
          /\ mdlArgs = [seed |-> seed, lr |-> lr, delta |-> delta]
          /\ mdl = NewModel(seed)
          /\ mdlPrev = NewModel(seed)
    /\ mdlCalls = 0
    /\ mdlSample = None
    /\ mdlLoss = 0
    /\ IdleWrite /\ IdleMain /\ IdleFen /\ IdleSplit /\ IdleLoad

TrainSampleCall ==
    /\ mdl # None
    /\ mdlCalls < MaxCalls
    /\ \E features \in FeatureLists, label \in LabelSet :
          LET r == train_sample(mdl, features, label, mdlArgs.lr, mdlArgs.delta)
          IN  /\ mdl' = r.model
              /\ mdlLoss' = r.loss
              /\ mdlPrev' = mdl
              /\ mdlSample' = [features |-> features, label |-> label]
    /\ mdlCalls' = mdlCalls + 1
    /\ UNCHANGED <<mdlArgs, writeVars, mainVars, fenVars, splitVars, loadVars>>

NextModel == TrainSampleCall

SpecModel == InitModel /\ [][NextModel]_vars

----------------------------------------------------------------------------
(* The list objects of the live model and of its snapshots.                *)

\* The parameter values a tuple of addresses (and the float b2) stands for.
Deref(h, m) ==
    [ w1 |-> [idx \in Rows |-> h[h[m.w1][idx]]],
      b1 |-> h[m.b1],
      w2 |-> h[m.w2],
      b2 |-> m.b2 ]

\* NnueModel(INPUT_SIZE, HIDDEN_SIZE, seed) on an empty heap: one list per w1
\* row, then the list of rows, b1 and w2.
ConstructedHeap(seed) ==
    LET v == NewModel(seed)
    IN  [a \in 1 .. (InputSize + 3) |->
            IF a <= InputSize THEN v.w1[a - 1]
            ELSE IF a = InputSize + 1 THEN [idx \in Rows |-> idx + 1]
            ELSE IF a = InputSize + 2 THEN v.b1
            ELSE v.w2]

ConstructedModel ==
    [w1 |-> InputSize + 1, b1 |-> InputSize + 2, w2 |-> InputSize + 3, b2 |-> 0]

\* The heap after train_sample has updated the lists of m in place to new.
UpdateInPlace(h, m, new) ==
    [a \in DOMAIN h |->
        IF a = m.b1 THEN new.b1
        ELSE IF a = m.w2 THEN new.w2
        ELSE IF \E idx \in Rows : h[m.w1][idx] = a
        THEN new.w1[CHOOSE idx \in Rows : h[m.w1][idx] = a]
        ELSE h[a]]

\* A snapshot that copies the list of rows but shares the rows themselves.
SnapshotShallow(h, m) ==
    LET base == Len(h)
    IN  [ heap |-> h \o <<h[m.w1], h[m.b1], h[m.w2]>>,
          snap |-> [w1 |-> base + 1, b1 |-> base + 2, w2 |-> base + 3, b2 |-> m.b2] ]

\* ([row[:] for row in model.w1], model.b1[:], model.w2[:], model.b2):
\* [heap, snap], the heap with the fresh copies and their addresses.
Snapshot(h, m) ==
    LET base == Len(h)
        rows == [k \in 1 .. InputSize |-> h[h[m.w1][k - 1]]]
        outer == [idx \in Rows |-> base + idx + 1]
    IN  [ heap |-> h \o rows \o <<outer, h[m.b1], h[m.w2]>>,
          snap |-> [ w1 |-> base + InputSize + 1, b1 |-> base + InputSize + 2,
                     w2 |-> base + InputSize + 3, b2 |-> m.b2 ] ]

\* A list indexed from 0, as the sequence write_snnue iterates over.
ToSeq(f, n) == [k \in 1 .. n |-> f[k - 1]]

----------------------------------------------------------------------------
(* SpecMain: the training loop of main, the restore of the best snapshot   *)
(* and the write of the weights.  evaluate(model, val, delta) is an input: *)
(* each epoch's validation loss is drawn from LossSet.                     *)

LossSet == 0 .. MaxLoss

\* math.inf, above every loss.
Inf == MaxLoss + 1

SampleA == [features |-> <<0>>, label |-> 50]
SampleB == [features |-> <<0, 1>>, label |-> -300]
TrainSets == {<<>>, <<SampleA>>, <<SampleB, SampleA>>}

InitMain ==
    /\ \E epochs \in 0 .. MaxEpochs, minEpochs \in {0, 3, MaxEpochs + 1},
          patience \in -1 .. MaxPatience, lr \in LrSet, delta \in DeltaSet :
          /\ args = [ epochs |-> epochs, minEpochs |-> minEpochs,
                      patience |-> patience, lr |-> lr, huberDelta |-> delta,
                      seed |-> 1 ]
          /\ patience_left = patience
    /\ train \in TrainSets
    /\ heap = ConstructedHeap(1)
    /\ model = ConstructedModel
    /\ history = <<>>
    /\ best_val = Inf
    /\ best_epoch = 0
    /\ best_snapshot = None
    /\ epoch = 0
    /\ sampleIdx = 1
    /\ total_loss = 0
    /\ pcMain = "loop"
    /\ written = None
    /\ epochParams = <<>>
    /\ snapTaken = None
    /\ patienceTrace = <<>>
    /\ IdleModel /\ IdleWrite /\ IdleFen /\ IdleSplit /\ IdleLoad

\* `if val_loss < best_val`
ImprovedOrEqual(val_loss, best) == val_loss <= best

Improved(val_loss, best) == val_loss < best

\* `elif epoch + 1 >= args.minEpochs`, epochNo being epoch + 1
CountedNoFloor(improved, epochNo, minEpochs) == ~improved

Counted(improved, epochNo, minEpochs) == ~improved /\ epochNo >= minEpochs

\* `if patience_left <= 0: break`, after the decrement
OutOfPatience(left) == left <= 0

\* One iteration of `for sample in train`: model.train_sample(...).
TrainSampleStep ==
    /\ pcMain = "loop"
    /\ epoch < args.epochs
    /\ sampleIdx <= Len(train)
    /\ LET sample == train[sampleIdx]
           r == train_sample(Deref(heap, model), sample.features, sample.label,
                             args.lr, args.huberDelta)
       IN  /\ heap' = UpdateInPlace(heap, model, r.model)
           /\ model' = [model EXCEPT !.b2 = r.model.b2]
           /\ total_loss' = total_loss + r.loss
    /\ sampleIdx' = sampleIdx + 1
    /\ UNCHANGED <<args, train, epoch, history, best_val, best_epoch,
                   best_snapshot, patience_left, pcMain, written, epochParams,
                   snapTaken, patienceTrace>>
    /\ UNCHANGED <<modelVars, writeVars, fenVars, splitVars, loadVars>>

\* The rest of the loop body once the samples are through: the losses, the
\* history record, the best snapshot, the patience counter and the break.
EpochEnd ==
    /\ pcMain = "loop"
    /\ epoch < args.epochs
    /\ sampleIdx > Len(train)
    /\ \E val_loss \in LossSet :
          LET train_loss == [ num |-> total_loss,
                              den |-> 2 * (IF Len(train) > 1 THEN Len(train) ELSE 1) ]
              improved == Improved(val_loss, best_val)
              counted == Counted(improved, epoch + 1, args.minEpochs)
              left == IF improved THEN args.patience
                      ELSE IF counted THEN patience_left - 1
                      ELSE patience_left
              s == Snapshot(heap, model)
          IN  /\ history' = Append(history, [ epoch |-> epoch + 1,
                                              trainLoss |-> train_loss,
                                              valLoss |-> val_loss ])
              /\ best_val' = IF improved THEN val_loss ELSE best_val
              /\ best_epoch' = IF improved THEN epoch + 1 ELSE best_epoch
              /\ best_snapshot' = IF improved THEN s.snap ELSE best_snapshot
              /\ heap' = IF improved THEN s.heap ELSE heap
              /\ snapTaken' = IF improved THEN Deref(heap, model) ELSE snapTaken
              /\ patience_left' = left
              /\ patienceTrace' = Append(patienceTrace, left)
              /\ IF counted /\ OutOfPatience(left)
                 THEN pcMain' = "break" /\ epoch' = epoch
                 ELSE pcMain' = "loop" /\ epoch' = epoch + 1
    /\ epochParams' = Append(epochParams, Deref(heap, model))
    /\ sampleIdx' = 1
    /\ total_loss' = 0
    /\ UNCHANGED <<args, train, model, written>>
    /\ UNCHANGED <<modelVars, writeVars, fenVars, splitVars, loadVars>>

\* After the loop: the best snapshot becomes the model and write_snnue is
\* called with its lists.
RestoreAndWrite ==
    /\ \/ pcMain = "loop" /\ epoch >= args.epochs
       \/ pcMain = "break"
    /\ LET m == IF best_snapshot # None THEN best_snapshot ELSE model
           v == Deref(heap, m)
           r == write_snnue(outFile, "weights", InputSize, HiddenSize,
                            ToSeq([idx \in Rows |-> ToSeq(v.w1[idx], HiddenSize)],
                                  InputSize),
                            ToSeq(v.b1, HiddenSize), ToSeq(v.w2, HiddenSize), v.b2)
       IN  /\ model' = m
           /\ written' = v
           /\ outFile' = r.file
           /\ wrResult' = r.result
    /\ pcMain' = "done"
    /\ UNCHANGED <<args, train, heap, epoch, sampleIdx, total_loss, history,
                   best_val, best_epoch, best_snapshot, patience_left,
                   epochParams, snapTaken, patienceTrace>>
    /\ UNCHANGED <<modelVars, wrArgs, fenVars, splitVars, loadVars>>

NextMain == TrainSampleStep \/ EpochEnd \/ RestoreAndWrite

SpecMain == InitMain /\ [][NextMain]_vars

----------------------------------------------------------------------------
(* C8: one call of train_sample leaves unchanged every w1 row whose index  *)
(* is not among the sample's features, and leaves unchanged b1[i] and the  *)
(* whole column w1[.][i] of every hidden unit i whose pre-activation the   *)
(* forward pass clamped (to 0, being <= 0, or to the cap, being >= 127).   *)

C8_Pre(m, features, i) ==
    m.b1[i] + SumSeq([k \in 1 .. Len(features) |-> m.w1[features[k]][i]])

C8_Clamped(m, features, i) ==
    C8_Pre(m, features, i) <= 0 \/ C8_Pre(m, features, i) >= 127

C8_InFeatures(features, idx) == \E k \in 1 .. Len(features) : features[k] = idx

C8_TrainSampleFrame ==
    mdlCalls > 0 =>
        /\ \A idx \in Rows :
              ~C8_InFeatures(mdlSample.features, idx) => mdl.w1[idx] = mdlPrev.w1[idx]
        /\ \A i \in Units :
              C8_Clamped(mdlPrev, mdlSample.features, i) =>
                  /\ mdl.b1[i] = mdlPrev.b1[i]
                  /\ \A idx \in Rows : mdl.w1[idx][i] = mdlPrev.w1[idx][i]

\* A call on a sample with an absent feature, one unit saturated at the cap
\* and another unit that was active and did change.
C8_Witness ==
    /\ mdlCalls > 0
    /\ \E idx \in Rows : ~C8_InFeatures(mdlSample.features, idx)
    /\ \E i \in Units : C8_Pre(mdlPrev, mdlSample.features, i) >= 127
    /\ \E i \in Units : C8_Pre(mdlPrev, mdlSample.features, i) <= 0
    /\ \E i \in Units, idx \in Rows :
          /\ mdl.b1[i] # mdlPrev.b1[i]
          /\ mdl.w1[idx][i] # mdlPrev.w1[idx][i]

----------------------------------------------------------------------------
(* SpecFen: one call of fen_to_features on a position string.              *)

RankTexts ==
    { <<"r", "n", "b", "q", "k", "p", "1", "P">>,
      <<"R", "N", "B", "Q", "K", "3">>,
      <<"8">> }

\* Rank texts that are not a rank of a position: an unknown letter, too few
\* files.
OddRankTexts == { <<"x", "7">>, <<"p", "p">>, <<>> }

\* Numbers of rank segments other than 8.
RankCounts == {1, 7, 9}

RECURSIVE JoinRanks(_)
JoinRanks(ranks) ==
    IF Len(ranks) = 1 THEN ranks[1]
    ELSE ranks[1] \o <<"/">> \o JoinRanks(Tail(ranks))

Boards ==
    { JoinRanks(ranks) : ranks \in [1 .. 8 -> RankTexts] }
    \cup { JoinRanks(ranks) :
               ranks \in UNION { [1 .. n -> {<<"8">>, <<"R", "N", "B", "Q", "K", "3">>}] :
                                   n \in RankCounts } }
    \cup { JoinRanks([k \in 1 .. 8 |-> IF k = at THEN odd ELSE <<"8">>]) :
               at \in 1 .. 8, odd \in OddRankTexts }

TrailingFields == { <<>>, <<" ", "w", " ", "-">> }

InitFen ==
    /\ \E board \in Boards, rest \in TrailingFields : fen = board \o rest
    /\ fenResult = [status |-> "pending", features |-> <<>>]
    /\ IdleModel /\ IdleWrite /\ IdleMain /\ IdleSplit /\ IdleLoad

Encode ==
    /\ fenResult.status = "pending"
    /\ fenResult' = fen_to_features(fen)
    /\ UNCHANGED <<fen, modelVars, writeVars, mainVars, splitVars, loadVars>>

NextFen == Encode

SpecFen == InitFen /\ [][NextFen]_vars

----------------------------------------------------------------------------
(* C9: for a position string whose board field has exactly 8 rank          *)
(* segments, each describing 8 files with the twelve piece letters and     *)
(* empty-run digits, fen_to_features returns indices in [0, 768) without   *)
(* duplicates, one per piece, the piece c on file f of rank r (0-based,    *)
(* rank 0 being the last segment) giving (colorOffset + pieceTypeIndex)*64 *)
(* + r*8+f for white and + (7-r)*8+f for black; a board field that does    *)
(* not split into exactly 8 rank segments fails with ValueError.           *)

C9_White == {"P", "N", "B", "R", "Q", "K"}
C9_Black == {"p", "n", "b", "r", "q", "k"}
C9_Digits == {"1", "2", "3", "4", "5", "6", "7", "8"}

\* The board field: the characters before the first blank.
C9_Board ==
    LET blanks == {k \in 1 .. Len(fen) : fen[k] = " "}
        end == IF blanks = {} THEN Len(fen)
               ELSE (CHOOSE k \in blanks : \A j \in blanks : k <= j) - 1
    IN  SubSeq(fen, 1, end)

\* Segment s of the board: what lies between slash s-1 and slash s.
C9_Segment(board, slashes, s) ==
    LET nth(n) == CHOOSE k \in slashes : Cardinality({j \in slashes : j < k}) = n - 1
        from == IF s = 1 THEN 1 ELSE nth(s - 1) + 1
        to == IF s = Cardinality(slashes) + 1 THEN Len(board) ELSE nth(s) - 1
    IN  SubSeq(board, from, to)

RECURSIVE C9_Expand(_)
\* The squares a rank segment describes, file a first: "." for an empty
\* square of a run, any other character for itself.
C9_Expand(segment) ==
    IF segment = <<>> THEN <<>>
    ELSE IF Head(segment) \in C9_Digits
    THEN [k \in 1 .. DigitValue[Head(segment)] |-> "."] \o C9_Expand(Tail(segment))
    ELSE <<Head(segment)>> \o C9_Expand(Tail(segment))

\* The ranks of the board, each as its squares.
C9_Squares ==
    LET board == C9_Board
        slashes == {k \in 1 .. Len(board) : board[k] = "/"}
    IN  [s \in 1 .. (Cardinality(slashes) + 1) |->
            C9_Expand(C9_Segment(board, slashes, s))]

C9_Valid(squares) ==
    /\ Len(squares) = 8
    /\ \A s \in 1 .. 8 :
          /\ Len(squares[s]) = 8
          /\ \A f \in 1 .. 8 : squares[s][f] \in C9_White \cup C9_Black \cup {"."}

C9_TypeIndex(c) ==
    CASE c \in {"p", "P"} -> 0 [] c \in {"n", "N"} -> 1 [] c \in {"b", "B"} -> 2
      [] c \in {"r", "R"} -> 3 [] c \in {"q", "Q"} -> 4 [] c \in {"k", "K"} -> 5

\* The index of piece c on file f of rank r, both 0-based.
C9_Index(c, f, r) ==
    IF c \in C9_White
    THEN C9_TypeIndex(c) * 64 + r * 8 + f
    ELSE (6 + C9_TypeIndex(c)) * 64 + (7 - r) * 8 + f

C9_Occupied(squares) ==
    {p \in (1 .. 8) \X (1 .. 8) : squares[p[1]][p[2]] # "."}

C9_FenToFeatures ==
    fenResult.status \notin {"idle", "pending"} =>
        LET squares == C9_Squares
            out == fenResult.features
        IN  /\ C9_Valid(squares) =>
                  /\ fenResult.status = "ok"
                  /\ \A k \in 1 .. Len(out) : out[k] >= 0 /\ out[k] < 768
                  /\ \A j, k \in 1 .. Len(out) : j # k => out[j] # out[k]
                  /\ Len(out) = Cardinality(C9_Occupied(squares))
                  /\ {out[k] : k \in 1 .. Len(out)} =
                        { C9_Index(squares[p[1]][p[2]], p[2] - 1, 8 - p[1]) :
                            p \in C9_Occupied(squares) }
            /\ Len(squares) # 8 => fenResult.status = "ValueError"

\* A valid board with white and black pieces off the middle ranks has been
\* encoded.
C9_Witness ==
    LET squares == C9_Squares
    IN  /\ fenResult.status = "ok"
        /\ C9_Valid(squares)
        /\ squares[1][1] \in C9_Black
        /\ squares[1][8] \in C9_White
        /\ squares[8][1] \in C9_White
        /\ Len(fenResult.features) > 8

----------------------------------------------------------------------------
(* SpecSplit: one call of split_by_game on a non-empty sample list.        *)

SplitInputs ==
    UNION { [1 .. n -> 1 .. MaxGameId] : n \in 1 .. MaxSplitSamples }
    \cup { [k \in 1 .. n |-> k] : n \in 1 .. MaxGames }
    \cup { [k \in 1 .. (n + 1) |-> IF k <= n THEN k ELSE 1] : n \in 1 .. MaxGames }

InitSplit ==
    /\ \E ids \in SplitInputs :
          spSamples = [k \in 1 .. Len(ids) |-> [idx |-> k, gameId |-> ids[k]]]
    /\ spOut = [train |-> <<>>, val |-> <<>>]
    /\ pcSplit = "call"
    /\ IdleModel /\ IdleWrite /\ IdleMain /\ IdleFen /\ IdleLoad

SplitCall ==
    /\ pcSplit = "call"
    /\ LET games == SortedSeq({spSamples[k].gameId : k \in 1 .. Len(spSamples)})
       IN  \E shuffled \in Shuffles(games) :
              spOut' = split_by_game(spSamples, shuffled)
    /\ pcSplit' = "done"
    /\ UNCHANGED <<spSamples, modelVars, writeVars, mainVars, fenVars, loadVars>>

NextSplit == SplitCall

SpecSplit == InitSplit /\ [][NextSplit]_vars

----------------------------------------------------------------------------
(* C3: split_by_game puts every sample of a non-empty list in exactly one  *)
(* of train and val, no gameId has samples in both, and the games with     *)
(* samples in train number floor(0.9 * the distinct games of the input).   *)

C3_Games(list) == {list[k].gameId : k \in 1 .. Len(list)}

C3_Count(list, x) == Cardinality({k \in 1 .. Len(list) : list[k] = x})

C3_SplitByGame ==
    pcSplit = "done" =>
        LET n == Cardinality(C3_Games(spSamples))
            m == Cardinality(C3_Games(spOut.train))
        IN  /\ \A k \in 1 .. Len(spSamples) :
                  C3_Count(spOut.train, spSamples[k])
                    + C3_Count(spOut.val, spSamples[k]) = 1
            /\ Len(spOut.train) + Len(spOut.val) = Len(spSamples)
            /\ C3_Games(spOut.train) \cap C3_Games(spOut.val) = {}
            /\ 10 * m <= 9 * n
            /\ 9 * n < 10 * (m + 1)

\* Ten games or more were split, so that two or more go to validation, and
\* one game had two samples.
C3_Witness ==
    /\ pcSplit = "done"
    /\ Cardinality(C3_Games(spSamples)) >= 10
    /\ Len(spSamples) > Cardinality(C3_Games(spSamples))
    /\ Cardinality(C3_Games(spOut.val)) >= 1
    /\ Len(spOut.train) > Cardinality(C3_Games(spOut.train))

----------------------------------------------------------------------------
(* load_timeout_map, load_timeout_map_for_run, load_engine_color and       *)
(* load_samples.  A dict is a function on its keys; an optional JSON value *)
(* is <<>> (absent or null) or <<v>>.                                      *)

EmptyDict == <<>>

\* dict.get(key, default) and d[key] = value
Get(d, key, default) == IF key \in DOMAIN d THEN d[key] ELSE default

Put(d, key, value) ==
    [k \in DOMAIN d \cup {key} |-> IF k = key THEN value ELSE d[k]]

\* A function's return value that may be None.
NoDict == [given |-> FALSE, map |-> EmptyDict]

RECURSIVE EntriesToMap(_, _)
\* The loop of load_timeout_map over the entries.
EntriesToMap(entries, timeout_map) ==
    IF entries = <<>> THEN timeout_map
    ELSE LET entry == Head(entries)
         IN  IF entry.gameId = <<>> \/ entry.timeoutMoves = <<>>
             THEN EntriesToMap(Tail(entries), timeout_map)
             ELSE EntriesToMap(Tail(entries),
                               Put(timeout_map, entry.gameId[1], entry.timeoutMoves[1]))

\* load_timeout_map on the contents of a summary file: None unless
\* timeoutMovesPerGame is a list.
load_timeout_map(file) ==
    IF ~file.isList THEN NoDict
    ELSE [given |-> TRUE, map |-> EntriesToMap(file.entries, EmptyDict)]

\* load_timeout_map_for_run: None when the run has no summary file.
load_timeout_map_for_run(runFiles, run_id) ==
    IF runFiles[run_id] = Missing THEN NoDict
    ELSE load_timeout_map(runFiles[run_id])

\* `load_timeout_map_for_run(analysis_root, run_id) or {}`
OrEmptyDict(r) == IF r.given /\ DOMAIN r.map # {} THEN r.map ELSE EmptyDict

\* load_engine_color: [status, color, cache]; annotated gives, per run and
\* game, the engineColor of the annotated file, "missing" for no file.
load_engine_color(run_id, game_id, annotated, colors) ==
    LET key == <<run_id, game_id>>
    IN  IF key \in DOMAIN colors
        THEN [status |-> "ok", color |-> colors[key], cache |-> colors]
        ELSE IF annotated[key] = "missing"
        THEN [status |-> "FileNotFoundError", color |-> "", cache |-> colors]
        ELSE IF annotated[key] \notin {"w", "b"}
        THEN [status |-> "ValueError", color |-> "", cache |-> colors]
        ELSE [ status |-> "ok", color |-> annotated[key],
               cache |-> Put(colors, key, annotated[key]) ]

\* `if timeout_cache[run_id] == {}`
IsEmptyDictNever(d) == FALSE

IsEmptyDict(d) == DOMAIN d = {}

\* `if game_timeout != 0`
TimeoutGameNever(game_timeout) == FALSE

TimeoutGame(game_timeout) == game_timeout # 0

\* `if eval_cp is None or mate_in is not None`
NoEvalOnly(eval_cp, mate_in) == eval_cp = <<>>

NoEvalOrMate(eval_cp, mate_in) == eval_cp = <<>> \/ mate_in # <<>>

\* min(label_stats["min"], label) with <<>> for math.inf, and max likewise.
MinOpt(m, x) == IF m = <<>> \/ x < m[1] THEN <<x>> ELSE m
MaxOpt(m, x) == IF m = <<>> \/ x > m[1] THEN <<x>> ELSE m

\* One pass of the loop body of load_samples over a non-blank row:
\* [samples, skipped, label_stats, cache, timeout_cache, outcome, error, stop].
process_row(st, env, row) ==
    LET same == [ samples |-> st.samples, skipped |-> st.skipped,
                  label_stats |-> st.label_stats, cache |-> st.cache,
                  timeout_cache |-> st.timeout_cache,
                  outcome |-> "", error |-> "", stop |-> FALSE ]
        fatal(e) == [same EXCEPT !.outcome = "error", !.error = e]
        game_id == row.gameId
        run_id == row.runId
        useRun == ~env.timeout_map.given
        tcache == IF useRun /\ run_id \notin DOMAIN st.timeout_cache
                  THEN Put(st.timeout_cache, run_id,
                           OrEmptyDict(load_timeout_map_for_run(env.runFiles, run_id)))
                  ELSE st.timeout_cache
        game_timeout == IF useRun THEN Get(tcache[run_id], game_id, 0)
                        ELSE Get(env.timeout_map.map, game_id, 0)
        skip(bucket) == [same EXCEPT !.timeout_cache = tcache,
                                     !.skipped[bucket] = @ + 1,
                                     !.outcome = bucket]
        col == load_engine_color(run_id, game_id, env.annotated, st.cache)
        label == IF col.color = "w" THEN row.evalCp[1] ELSE -row.evalCp[1]
        enc == fen_to_features(row.fen)
        label16 == IF row.evalCp16 = <<>> THEN <<>>
                   ELSE IF col.color = "w" THEN <<row.evalCp16[1]>>
                   ELSE <<-row.evalCp16[1]>>
        grown == Append(st.samples, [ features |-> enc.features, label |-> label,
                                      label16 |-> label16, gameId |-> game_id ])
    IN  IF run_id = "" THEN fatal("ValueError")
        ELSE IF useRun /\ IsEmptyDict(tcache[run_id]) THEN skip("missingTimeoutSummary")
        ELSE IF TimeoutGame(game_timeout) THEN skip("timeoutGame")
        ELSE IF row.timeoutNearby THEN skip("timeoutNearby")
        ELSE IF NoEvalOrMate(row.evalCp, row.mateIn) THEN skip("mate")
        ELSE IF col.status # "ok" THEN fatal(col.status)
        ELSE IF enc.status # "ok" THEN fatal(enc.status)
        ELSE [ samples |-> grown,
               skipped |-> st.skipped,
               label_stats |->
                   [ min |-> MinOpt(st.label_stats.min, label),
                     max |-> MaxOpt(st.label_stats.max, label),
                     sum |-> st.label_stats.sum + label,
                     sumSq |-> st.label_stats.sumSq + label * label ],
               cache |-> col.cache,
               timeout_cache |-> tcache,
               outcome |-> "sample",
               error |-> "",
               stop |-> env.max_samples # 0 /\ Len(grown) >= env.max_samples ]

\* The orders rng.shuffle(samples) may leave the list in.
ShuffledSamples(list) ==
    { [k \in 1 .. Len(list) |-> list[p[k]]] : p \in Permutations(1 .. Len(list)) }

\* The statistics load_samples adds after the loop: mean as the fraction
\* sum / total, std as the square root of the fraction max(variance, 0).
FinalStats(stats, total) ==
    LET varNum == total * stats.sumSq - stats.sum * stats.sum
    IN  [ min |-> stats.min, max |-> stats.max, sum |-> stats.sum,
          sumSq |-> stats.sumSq,
          mean |-> [num |-> stats.sum, den |-> total],
          std |-> [sqrtNum |-> IF varNum > 0 THEN varNum ELSE 0,
                   sqrtDen |-> total * total] ]

----------------------------------------------------------------------------
(* SpecLoad: load_samples reading a dataset line by line.  The rows, the   *)
(* summary files and the annotated files are inputs.                       *)

NotListFile == [isList |-> FALSE, entries |-> <<>>]
EmptyListFile == [isList |-> TRUE, entries |-> <<>>]
NullEntryFile ==
    [isList |-> TRUE, entries |-> <<[gameId |-> <<>>, timeoutMoves |-> <<1>>]>>]
OneGameFile ==
    [isList |-> TRUE, entries |-> <<[gameId |-> <<1>>, timeoutMoves |-> <<2>>]>>]
TwoGamesFile ==
    [ isList |-> TRUE,
      entries |-> << [gameId |-> <<1>>, timeoutMoves |-> <<0>>],
                     [gameId |-> <<2>>, timeoutMoves |-> <<3>>] >> ]

GlobalFiles == {NotListFile, EmptyListFile, OneGameFile, TwoGamesFile}
RunFilesR1 == {Missing, NotListFile, EmptyListFile, NullEntryFile, OneGameFile, TwoGamesFile}
RunFilesR2 == {Missing, OneGameFile}

RunIds == {"r1", "r2"}
GameIds == {1, 2}

GoodFen ==
    JoinRanks(<< <<"4", "k", "3">>, <<"8">>, <<"8">>, <<"8">>, <<"8">>, <<"8">>,
                 <<"8">>, <<"4", "K", "3">> >>) \o <<" ", "w">>
BadFen == <<"8", "/", "8", " ", "w">>

DatasetRows ==
    { [ gameId |-> g, runId |-> "r1", timeoutNearby |-> near, evalCp |-> cp,
        mateIn |-> mate, evalCp16 |-> IF g = 2 THEN <<12>> ELSE <<>>,
        fen |-> GoodFen ] :
        g \in GameIds, near \in BOOLEAN, cp \in {<<>>, <<10>>}, mate \in {<<>>, <<3>>} }
    \cup { [ gameId |-> 1, runId |-> "r2", timeoutNearby |-> FALSE, evalCp |-> <<10>>,
             mateIn |-> mate, evalCp16 |-> <<>>, fen |-> GoodFen ] :
             mate \in {<<>>, <<3>>} }
    \cup { [ gameId |-> 1, runId |-> "", timeoutNearby |-> FALSE, evalCp |-> <<10>>,
             mateIn |-> <<>>, evalCp16 |-> <<>>, fen |-> GoodFen ],
           [ gameId |-> 1, runId |-> "r1", timeoutNearby |-> FALSE, evalCp |-> <<10>>,
             mateIn |-> <<>>, evalCp16 |-> <<>>, fen |-> BadFen ] }

\* The annotated files together with the --maxSamples value of the run.
RunSetups ==
    { <<[key \in RunIds \X GameIds |-> "w"], 0>>,
      <<[key \in RunIds \X GameIds |-> "b"], MaxCap>>,
      <<[key \in RunIds \X GameIds |-> IF key = <<"r1", 1>> THEN "missing" ELSE "w"], MaxCap>>,
      <<[key \in RunIds \X GameIds |-> IF key = <<"r1", 2>> THEN "x" ELSE "b"], 0>> }

InitLoad ==
    /\ \E globalFile \in GlobalFiles, r1 \in RunFilesR1, r2 \in RunFilesR2,
          setup \in RunSetups :
          /\ globalFile.isList => (r1 = Missing /\ r2 = Missing)
          /\ r2 # Missing => r1 \in {Missing, TwoGamesFile}
          /\ ldEnv = [ globalFile |-> globalFile,
                       timeout_map |-> load_timeout_map(globalFile),
                       runFiles |-> [r1 |-> r1, r2 |-> r2],
                       annotated |-> setup[1],
                       max_samples |-> setup[2] ]
    /\ samples = <<>>
    /\ skipped = [ timeoutGame |-> 0, timeoutNearby |-> 0, mate |-> 0,
                   missingTimeoutSummary |-> 0 ]
    /\ label_stats = [min |-> <<>>, max |-> <<>>, sum |-> 0, sumSq |-> 0]
    /\ cache = EmptyDict
    /\ timeout_cache = EmptyDict
    /\ pcLoad = "read"
    /\ ldError = ""
    /\ ldLines = 0
    /\ ldRow = None
    /\ ldOutcome = ""
    /\ ldBefore = None
    /\ ldRows = 0
    /\ IdleModel /\ IdleWrite /\ IdleMain /\ IdleFen /\ IdleSplit

notLoadVars == <<modelVars, writeVars, mainVars, fenVars, splitVars>>

\* A line that is blank after strip(): `continue`.
BlankLine ==
    /\ pcLoad = "read"
    /\ ldLines < MaxLines
    /\ ldLines' = ldLines + 1
    /\ UNCHANGED <<ldEnv, samples, skipped, label_stats, cache, timeout_cache,
                   pcLoad, ldError, ldRow, ldOutcome, ldBefore, ldRows>>
    /\ UNCHANGED notLoadVars

\* One pass of the loop body over a non-blank line.
ReadRow ==
    /\ pcLoad = "read"
    /\ ldLines < MaxLines
    /\ \E row \in DatasetRows :
          LET r == process_row([ samples |-> samples, skipped |-> skipped,
                                 label_stats |-> label_stats, cache |-> cache,
                                 timeout_cache |-> timeout_cache ], ldEnv, row)
          IN  /\ samples' = r.samples
              /\ skipped' = r.skipped
              /\ label_stats' = r.label_stats
              /\ cache' = r.cache
              /\ timeout_cache' = r.timeout_cache
              /\ ldError' = r.error
              /\ pcLoad' = IF r.outcome = "error" THEN "error"
                           ELSE IF r.stop THEN "shuffle" ELSE "read"
              /\ ldRow' = row
              /\ ldOutcome' = r.outcome
    /\ ldBefore' = [samples |-> samples, skipped |-> skipped]
    /\ ldRows' = ldRows + 1
    /\ ldLines' = ldLines + 1
    /\ UNCHANGED ldEnv
    /\ UNCHANGED notLoadVars

\* The dataset has no further line.
EndOfFile ==
    /\ pcLoad = "read"
    /\ pcLoad' = "shuffle"
    /\ UNCHANGED <<ldEnv, samples, skipped, label_stats, cache, timeout_cache,
                   ldError, ldLines, ldRow, ldOutcome, ldBefore, ldRows>>
    /\ UNCHANGED notLoadVars

\* After the loop: the shuffle, the check for an empty result, the statistics.
Finish ==
    /\ pcLoad = "shuffle"
    /\ \E shuffled \in ShuffledSamples(samples) : samples' = shuffled
    /\ IF Len(samples) = 0
       THEN pcLoad' = "error" /\ ldError' = "RuntimeError" /\ UNCHANGED label_stats
       ELSE /\ pcLoad' = "done"
            /\ label_stats' = FinalStats(label_stats, Len(samples))
            /\ UNCHANGED ldError
    /\ UNCHANGED <<ldEnv, skipped, cache, timeout_cache, ldLines, ldRow,
                   ldOutcome, ldBefore, ldRows>>
    /\ UNCHANGED notLoadVars

NextLoad == BlankLine \/ ReadRow \/ EndOfFile \/ Finish

SpecLoad == InitLoad /\ [][NextLoad]_vars

----------------------------------------------------------------------------
(* Claims about load_samples, stated over the row last read (ldRow), what  *)
(* became of it (ldOutcome) and the lists and counters before it was read  *)
(* (ldBefore).  A row load_samples never reads, after the --maxSamples     *)
(* break or after a fatal error, is not a row it processes.                *)

\* The row last read went through the loop body without a fatal error.
L_Processed == pcLoad # "idle" /\ ldRow # None /\ ldOutcome # "error"

\* No global map is supplied: the global summary has no timeoutMovesPerGame list.
L_NoGlobalMap == ~ldEnv.globalFile.isList

\* The summary entries that apply to a row of the run.
L_Entries(run_id) ==
    IF ~L_NoGlobalMap THEN ldEnv.globalFile.entries
    ELSE IF ldEnv.runFiles[run_id] = Missing \/ ~ldEnv.runFiles[run_id].isList THEN <<>>
    ELSE ldEnv.runFiles[run_id].entries

\* The timeout-move count the entries give a game: that of the last entry
\* naming the game with a count, 0 with no such entry.
L_Count(entries, g) ==
    LET ks == { k \in 1 .. Len(entries) :
                  entries[k].gameId = <<g>> /\ entries[k].timeoutMoves # <<>> }
    IN  IF ks = {} THEN 0
        ELSE entries[CHOOSE k \in ks : \A j \in ks : j <= k].timeoutMoves[1]

\* The run's summary gives no game a count: the file is missing, has no
\* list, or no entry of its list has both fields.
L_NoUsableSummary(run_id) ==
    \A k \in 1 .. Len(L_Entries(run_id)) :
        L_Entries(run_id)[k].gameId = <<>> \/ L_Entries(run_id)[k].timeoutMoves = <<>>

\* The row was skipped under the bucket: no sample appended, that counter
\* one higher, the others as before.
L_SkippedUnder(bucket) ==
    /\ ldOutcome = bucket
    /\ Len(samples) = Len(ldBefore.samples)
    /\ skipped = [ldBefore.skipped EXCEPT ![bucket] = @ + 1]

(* C4: a row read without a fatal error whose game has a non-zero          *)
(* timeout-move count, in the global map or else in its run's map, gets no *)
(* sample appended and is counted under timeoutGame; with a global map no  *)
(* sample in the list belongs to a game with a non-zero count.             *)
C4_TimeoutGameExcluded ==
    /\ (L_Processed /\ L_Count(L_Entries(ldRow.runId), ldRow.gameId) # 0)
           => L_SkippedUnder("timeoutGame")
    /\ (pcLoad # "idle" /\ ~L_NoGlobalMap)
           => \A k \in 1 .. Len(samples) :
                  L_Count(ldEnv.globalFile.entries, samples[k].gameId) = 0

\* A row of a timeout game was read from a per-run map after a sample had
\* been accepted.
C4_Witness ==
    /\ L_Processed
    /\ L_NoGlobalMap
    /\ L_Count(L_Entries(ldRow.runId), ldRow.gameId) # 0
    /\ ldRow.evalCp # <<>> /\ ldRow.mateIn = <<>> /\ ~ldRow.timeoutNearby
    /\ Len(samples) = 1
    /\ skipped.timeoutGame = 1

(* C5 as stated: every row with mateIn set that is read is left out of the *)
(* samples and counted under mate.                                         *)
C5_MateRowsCountedUnderMate ==
    (L_Processed /\ ldRow.mateIn # <<>>) => L_SkippedUnder("mate")

(* C5, amended: a row with mateIn set that is read without a fatal error   *)
(* gets no sample appended, whether or not evalCp is present; it is        *)
(* counted under mate exactly when no earlier filter takes it, and under   *)
(* that earlier filter's bucket otherwise.                                 *)
C5_MateRowsExcluded ==
    (L_Processed /\ ldRow.mateIn # <<>>) =>
        LET run_id == ldRow.runId
            count == L_Count(L_Entries(run_id), ldRow.gameId)
        IN  IF L_NoGlobalMap /\ L_NoUsableSummary(run_id)
            THEN L_SkippedUnder("missingTimeoutSummary")
            ELSE IF count # 0 THEN L_SkippedUnder("timeoutGame")
            ELSE IF ldRow.timeoutNearby THEN L_SkippedUnder("timeoutNearby")
            ELSE L_SkippedUnder("mate")

\* A row with both mateIn and evalCp that no earlier filter takes was
\* counted under mate.
C5_Witness ==
    /\ L_Processed
    /\ ldRow.mateIn # <<>> /\ ldRow.evalCp # <<>>
    /\ ldOutcome = "mate"
    /\ skipped.mate = ldBefore.skipped.mate + 1

(* C7: with no global map, a row read without a fatal error is counted     *)
(* under missingTimeoutSummary exactly when its run's summary file is      *)
(* missing.                                                                *)
C7_SkippedExactlyWhenFileMissing ==
    (L_Processed /\ L_NoGlobalMap) =>
        (ldOutcome = "missingTimeoutSummary" <=> ldEnv.runFiles[ldRow.runId] = Missing)

\* What load_samples does instead: the row is counted under
\* missingTimeoutSummary exactly when the run's summary gives no game a count.
C7_SkippedWhenNoUsableSummary ==
    (L_Processed /\ L_NoGlobalMap) =>
        (ldOutcome = "missingTimeoutSummary" <=> L_NoUsableSummary(ldRow.runId))

\* A row of a run whose summary file is present was counted under
\* missingTimeoutSummary.
C7_Witness ==
    /\ L_Processed
    /\ L_NoGlobalMap
    /\ ldEnv.runFiles[ldRow.runId] # Missing
    /\ ldOutcome = "missingTimeoutSummary"

(* C11: after any prefix of non-blank rows has gone through the loop body  *)
(* without a fatal error, the row last read ended in exactly one outcome,  *)
(* the first that applies in the order missingTimeoutSummary, timeoutGame, *)
(* timeoutNearby, mate, sample: either one sample was appended and no      *)
(* counter moved, or one counter rose by one and no sample was appended;   *)
(* and the rows read number the samples plus the four counters.            *)
C11_Buckets == {"missingTimeoutSummary", "timeoutGame", "timeoutNearby", "mate"}

C11_Skips ==
    skipped.missingTimeoutSummary + skipped.timeoutGame
        + skipped.timeoutNearby + skipped.mate

\* The outcome the order of precedence gives the row.
C11_Expected(row) ==
    IF L_NoGlobalMap /\ L_NoUsableSummary(row.runId) THEN "missingTimeoutSummary"
    ELSE IF L_Count(L_Entries(row.runId), row.gameId) # 0 THEN "timeoutGame"
    ELSE IF row.timeoutNearby THEN "timeoutNearby"
    ELSE IF row.evalCp = <<>> \/ row.mateIn # <<>> THEN "mate"
    ELSE "sample"

C11_Appended ==
    /\ ldOutcome = "sample"
    /\ Len(samples) = Len(ldBefore.samples) + 1
    /\ skipped = ldBefore.skipped

C11_OneOutcomePerRow ==
    /\ L_Processed =>
          /\ ldOutcome = C11_Expected(ldRow)
          /\ C11_Appended \/ \E bucket \in C11_Buckets : L_SkippedUnder(bucket)
          /\ Cardinality({ bucket \in C11_Buckets :
                             skipped[bucket] # ldBefore.skipped[bucket] })
                 + (Len(samples) - Len(ldBefore.samples)) = 1
    /\ (pcLoad # "idle" /\ ldOutcome # "error") =>
          ldRows = Len(samples) + C11_Skips

\* Two rows were read, one accepted and one skipped under the first bucket.
C11_Witness ==
    /\ L_Processed
    /\ ldRows = 2
    /\ Len(samples) = 1
    /\ skipped.missingTimeoutSummary = 1
    /\ C11_Skips = 1

----------------------------------------------------------------------------
(* What the history says about each epoch, for C1, C2 and C10.             *)

\* Epoch k (1-based) had a validation loss strictly below every earlier one.
H_Improved(k) == \A j \in 1 .. (k - 1) : history[k].valLoss < history[j].valLoss

\* The patience counter before epoch k.
H_Before(k) == IF k = 1 THEN args.patience ELSE patienceTrace[k - 1]

\* The loop was left by `break`; the loop has been left.
H_StoppedEarly == pcMain \in {"break", "done"} /\ epoch < args.epochs
H_LoopEnded == pcMain \in {"break", "done"} \/ (pcMain = "loop" /\ epoch >= args.epochs)

\* The earliest epoch with the lowest validation loss.
H_BestEpoch ==
    CHOOSE k \in 1 .. Len(history) :
        /\ \A j \in 1 .. Len(history) : history[k].valLoss <= history[j].valLoss
        /\ \A j \in 1 .. (k - 1) : history[j].valLoss > history[k].valLoss

\* How the counter moves in every epoch run so far: an improving epoch
\* resets it to patience, a non-improving epoch numbered >= minEpochs
\* decrements it, a non-improving epoch before that floor leaves it alone.
H_CounterMoves ==
    /\ Len(patienceTrace) = Len(history)
    /\ \A k \in 1 .. Len(history) :
          /\ H_Improved(k) => patienceTrace[k] = args.patience
          /\ (~H_Improved(k) /\ k >= args.minEpochs) =>
                patienceTrace[k] = H_Before(k) - 1
          /\ (~H_Improved(k) /\ k < args.minEpochs) =>
                patienceTrace[k] = H_Before(k)

\* Without an early stop the loop ends only with the budget exhausted.
H_ElseExhausted == (H_LoopEnded /\ ~H_StoppedEarly) => Len(history) = args.epochs

----------------------------------------------------------------------------
(* C1 as stated: the counter moves as H_CounterMoves says, and training    *)
(* stops early exactly at the first epoch at which the counter reaches     *)
(* zero, and otherwise runs until the epochs budget is exhausted.          *)

C1_StopsWhenCounterReachesZero ==
    pcMain # "idle" =>
        /\ H_CounterMoves
        /\ \A k \in 1 .. Len(history) :
              patienceTrace[k] = 0 <=> (k = Len(history) /\ H_StoppedEarly)
        /\ H_ElseExhausted

(* C1 as amended: the counter moves as H_CounterMoves says, and training   *)
(* stops early exactly at the first non-improving epoch numbered           *)
(* >= minEpochs whose decrement leaves the counter at or below zero, and   *)
(* otherwise runs until the epochs budget is exhausted.                    *)

C1_StopsWhenDecrementedToZeroOrBelow ==
    pcMain # "idle" =>
        /\ H_CounterMoves
        /\ \A k \in 1 .. Len(history) :
              (~H_Improved(k) /\ k >= args.minEpochs /\ patienceTrace[k] <= 0)
                  <=> (k = Len(history) /\ H_StoppedEarly)
        /\ H_ElseExhausted

\* An early stop before the budget is used up, with a positive patience,
\* after a non-improving epoch below the floor that was tolerated.
C1_Witness ==
    /\ pcMain = "done"
    /\ H_StoppedEarly
    /\ Len(history) < args.epochs
    /\ args.patience >= 1
    /\ \E k \in 1 .. Len(history) : ~H_Improved(k) /\ k < args.minEpochs

----------------------------------------------------------------------------
(* C2: when training has terminated after at least one epoch, the          *)
(* parameters handed to write_snnue are the parameters as they stood at    *)
(* the end of the (earliest) epoch with the lowest validation loss; and    *)
(* at all times the lists of best_snapshot hold the values they held when  *)
(* the snapshot was taken, whatever train_sample has done since.           *)

C2_BestSnapshotWritten ==
    /\ (pcMain = "done" /\ Len(history) > 0) => written = epochParams[H_BestEpoch]
    /\ (pcMain # "idle" /\ best_snapshot # None) =>
          Deref(heap, best_snapshot) = snapTaken

\* Training went on after the best epoch and changed the live model, and
\* the best epoch's parameters were written all the same.
C2_Witness ==
    /\ pcMain = "done"
    /\ Len(history) > 0
    /\ Len(history) > H_BestEpoch
    /\ epochParams[Len(history)] # epochParams[H_BestEpoch]
    /\ written = epochParams[H_BestEpoch]

----------------------------------------------------------------------------
(* C10: once the loop has ended after at least one epoch, history holds    *)
(* one record per epoch run, numbered 1..k with k <= epochs, best_val is   *)
(* the minimum valLoss of the records and best_epoch the earliest epoch    *)
(* that attains it.                                                        *)

C10_HistoryAndBest ==
    (H_LoopEnded /\ Len(history) > 0) =>
        /\ Len(history) = Len(epochParams)
        /\ Len(history) <= args.epochs
        /\ \A k \in 1 .. Len(history) : history[k].epoch = k
        /\ \A k \in 1 .. Len(history) : best_val <= history[k].valLoss
        /\ history[best_epoch].valLoss = best_val
        /\ \A k \in 1 .. (best_epoch - 1) : history[k].valLoss > best_val

\* The minimum is attained twice and the earlier epoch is reported.
C10_Witness ==
    /\ pcMain = "done"
    /\ \E j, k \in 1 .. Len(history) :
          /\ j < k
          /\ history[j].valLoss = best_val
          /\ history[k].valLoss = best_val
          /\ best_epoch = j

----------------------------------------------------------------------------
(* C6: when the bytes written differ from                                  *)
(* 12 + (input_size*hidden_size + hidden_size + hidden_size + 1)*4,        *)
(* write_snnue fails and no file remains at the output path; after a call  *)
(* a file is at the path only when its length equals that formula.         *)

C6_ByteLength ==
    12 + (wrArgs.input_size * wrArgs.hidden_size
            + wrArgs.hidden_size + wrArgs.hidden_size + 1) * 4

C6_BytesWritten ==
    12 + 4 * (SumSeq([k \in 1 .. Len(wrArgs.w1) |-> Len(wrArgs.w1[k])])
                + Len(wrArgs.b1) + Len(wrArgs.w2) + 1)

C6_NoFileAfterMismatch ==
    (wrResult # "pending" /\ wrArgs.dir # "") =>
        /\ C6_BytesWritten # C6_ByteLength =>
              (wrResult = "ValueError" /\ outFile = Missing)
        /\ outFile # Missing => outFile.size = C6_ByteLength

\* A call whose lists do not have the shape the sizes announce has failed.
C6_Witness ==
    /\ wrResult = "ValueError"
    /\ C6_BytesWritten # C6_ByteLength

====
